---- MODULE Spec2Model ----
(***************************************************************************)
(* k2000.c - data acquisition from a Keithley 2000 over GPIB.              *)
(*                                                                         *)
(* main() is a single sequential control flow.  The model follows it       *)
(* statement group by statement group: pc is the position in main(), the   *)
(* variables of main() keep their names, and everything the environment    *)
(* decides (command line, bus status bits, fopen/popen results, the key    *)
(* pressed, the clock) is an input drawn from a small set.                 *)
(*                                                                         *)
(* Strings are sequences of one-character strings; the terminating NUL of  *)
(* a C string is the end of the sequence.  Elapsed time is counted in      *)
(* whole minutes.                                                          *)
(***************************************************************************)
EXTENDS Integers, Sequences, FiniteSets, TLC

(* ------------------------------ bounds --------------------------------- *)

\* number of command line arguments after argv[0]
MaxArgs == 3
\* number of samples recorded in one run
MaxLoop == 2
\* largest elapsed time (minutes) the clock reaches
MaxTime == 2

(* --------------------------- program constants ------------------------- *)

ERR_FILE == 4
ERR_INST == 5
EOF == "EOF"
ESC == "ESC"
NUL == "NUL"
SW == "-"
GNUPLOT == <<"g", "n", "u", "p", "l", "o", "t">>
\* exit status of a process killed by a signal (128 + signal number)
SegvStatus == 128 + 11
FpeStatus == 128 + 8

optionS == <<"h", "f", "n", "d", "a", ":", "w", ":", "t", ":", "T", ":",
             "m", ":", "c", ":", "g", ":">>

scpi_mode == <<"volt:dc", "curr:dc", "res", "temp", "cont", "diod">>
ylabels == <<"V", "mA", "Ohm", "degrees C", "Ohm", "mV">>

CmdReset == <<"*rst;*cls;:form:elem read,unit;*opc">>
CmdIdn == <<"*idn?">>
CmdBlank == <<":DISP:TEXT:DATA '-ACQUIRING- ';:DISP:TEXT:STAT 1">>
CmdRead == <<":read?">>
CmdUnblank == <<":DISP:TEXT:STAT 0">>
CmdPreset == <<"syst:pres">>
\* variant: the table is indexed one entry too far
CmdModeNextEntry(m) == <<":func '", scpi_mode[((m + 1) % 6) + 1], "';:init; *opc\n">>
CmdMode(m) == <<":func '", scpi_mode[m + 1], "';:init; *opc\n">>

(* ------------------------------ C strings ------------------------------ *)

\* *p for a char pointer p into a NUL terminated string
Deref(s) == IF s = <<>> THEN NUL ELSE Head(s)
\* p + 1
Inc(s) == IF s = <<>> THEN <<>> ELSE Tail(s)
NullP == [null |-> TRUE, str |-> <<>>]
Ptr(s) == [null |-> FALSE, str |-> s]

Min(a, b) == IF a < b THEN a ELSE b

DigitVal(c) ==
    CASE c = "0" -> 0 [] c = "1" -> 1 [] c = "2" -> 2 [] c = "3" -> 3
      [] c = "4" -> 4 [] c = "5" -> 5 [] c = "6" -> 6 [] c = "7" -> 7
      [] c = "8" -> 8 [] c = "9" -> 9 [] OTHER -> -1

RECURSIVE DigitRun(_)
\* length of the leading run of decimal digits
DigitRun(s) ==
    IF s = <<>> \/ DigitVal(Head(s)) < 0 THEN 0 ELSE 1 + DigitRun(Tail(s))

RECURSIVE DecValue(_, _)
DecValue(s, acc) ==
    IF s = <<>> THEN acc ELSE DecValue(Tail(s), 10 * acc + DigitVal(Head(s)))

\* sscanf(s, "%<width>d", &v): at most width characters are consumed, an
\* optional sign then digits; with no digit nothing is converted and v keeps
\* its old value.
ScanInt(s, width, old) ==
    LET t == SubSeq(s, 1, Min(width, Len(s)))
        signed == Deref(t) \in {"-", "+"}
        body == IF signed THEN Tail(t) ELSE t
        n == DigitRun(body)
        v == DecValue(SubSeq(body, 1, n), 0)
    IN  IF n = 0 THEN old
        ELSE IF Deref(t) = "-" THEN 0 - v ELSE v

\* sscanf(s, "%80s", buf): at most 80 non-blank characters
ScanStr(s, width) == SubSeq(s, 1, Min(width, Len(s)))

RECURSIVE strclean(_)
\* strclean(): the buffer is cut at the first CR or LF
strclean(buf) ==
    IF buf = <<>> \/ Head(buf) \in {"\n", "\r"} THEN <<>>
    ELSE <<Head(buf)>> \o strclean(Tail(buf))

RECURSIVE strchr(_, _, _)
\* index of the first occurrence of ch in s at or after i, 0 for NULL
strchr(s, ch, i) ==
    IF i > Len(s) THEN 0
    ELSE IF s[i] = ch THEN i ELSE strchr(s, ch, i + 1)

\* s[i], NUL at the end of the string
CharAt(s, i) == IF i >= 1 /\ i <= Len(s) THEN s[i] ELSE NUL

(* ------------------------------- GetOpt -------------------------------- *)

\* what GetOpt returns and leaves in its globals
Got(ch, oi, lp, oa) == [ch |-> ch, optind |-> oi, letP |-> lp, optarg |-> oa]

gopEOF(oi) == Got(EOF, oi, NullP, NullP)
gopError(oi, lp) == Got("~", oi, lp, NullP)

\* the option letter ch has been read, lp points behind it
GetOptLetter(av, argc, oi, lp, ch) ==
    LET optP == strchr(optionS, ch, 1)
    IN  IF ch = ":" \/ optP = 0 THEN gopError(oi, Ptr(lp))
        ELSE IF CharAt(optionS, optP + 1) = ":"
        THEN IF Deref(lp) = NUL
             THEN IF argc <= oi + 1 THEN gopError(oi + 1, Ptr(lp))
                  ELSE Got(ch, oi + 2, NullP, Ptr(av[oi + 1]))
             ELSE Got(ch, oi + 1, NullP, Ptr(lp))
        ELSE IF Deref(lp) = NUL
             THEN Got(ch, oi + 1, NullP, NullP)
             ELSE Got(ch, oi, Ptr(lp), NullP)

\* lp points at the next option letter of the current cluster
GetOptCluster(av, argc, oi, lp) ==
    IF Deref(lp) = NUL THEN gopEOF(oi + 1)
    ELSE GetOptLetter(av, argc, oi, Inc(lp), Deref(lp))

\* av[i] is argv[i] for 1 <= i < argc, argv[argc] is NULL
GetOpt(av, oi, lp) ==
    LET argc == Len(av) + 1
    IN  IF argc > oi
        THEN IF lp.null
             THEN IF Deref(av[oi]) # SW THEN gopEOF(oi)
                  ELSE IF Deref(Inc(av[oi])) = SW THEN gopEOF(oi + 1)
                  ELSE GetOptCluster(av, argc, oi, Inc(av[oi]))
             ELSE GetOptCluster(av, argc, oi, lp.str)
        ELSE gopEOF(oi)

(* ------------------------------- inputs -------------------------------- *)

\* The words a command line is made of: option words, argument words and
\* the name of the data file.
OptWords ==
    { <<"-", "h">>, <<"-", "f">>, <<"-", "n">>, <<"-", "d">>, <<"-", "n", "d">>,
      <<"-", "a">>, <<"-", "t">>, <<"-", "m">>, <<"-", "T">>, <<"-", "w">>,
      <<"-", "g">>, <<"-", "x">>, <<"-">>, <<"-", "1">> }
ArgWords == { <<"0">>, <<"1">>, <<"2">>, <<"5">>, <<"6", "0", "1">> }
FileWords == { <<"o", "u", "t">> }
TakesArg == { <<"-", "a">>, <<"-", "t">>, <<"-", "m">>, <<"-", "T">>,
              <<"-", "w">>, <<"-", "g">> }
Tokens == OptWords \cup ArgWords \cup FileWords

\* the argument words tried behind each option that takes an argument: a
\* value in range, a value above the range, a negative value, a word that
\* is not a number
ArgsOf(opt) ==
    CASE opt = <<"-", "a">> -> { <<"0">>, <<"6", "0", "1">>, <<"-", "1">>, <<"o", "u", "t">> }
      [] opt = <<"-", "t">> -> { <<"0">>, <<"6", "0", "1">>, <<"-", "1">> }
      [] opt = <<"-", "m">> -> { <<"1">>, <<"5">>, <<"6", "0", "1">>, <<"-", "1">> }
      [] opt = <<"-", "T">> -> { <<"1">>, <<"-", "1">> }
      [] opt = <<"-", "w">> -> { <<"0">>, <<"1">>, <<"2">>, <<"-", "1">> }
      [] opt = <<"-", "g">> -> { <<"o", "u", "t">> }

\* The command lines explored: at most MaxArgs words.  Behind an option that
\* takes an argument stands one of its argument words; any other word is an
\* option word, or the file name as the last word; a lone "-" is followed
\* by at most one word.
WellFormed(s) ==
    \A i \in 1 .. Len(s) :
        /\ IF i > 1 /\ s[i - 1] \in TakesArg
           THEN s[i] \in ArgsOf(s[i - 1])
           ELSE s[i] \in OptWords \/ (s[i] \in FileWords /\ i = Len(s))
        /\ s[i] = <<"-">> => i >= Len(s) - 1

ArgvSet == { s \in UNION { [1 .. n -> Tokens] : n \in 0 .. MaxArgs } : WellFormed(s) }

\* what the user types at the overwrite prompt (fgetc)
Answers == {"y", "Y", "n", EOF}
\* keys seen by kbhit()/readch(), "none" when no key is pending
Keys == {"none", "q", ESC, "x"}
\* what the instrument sends for one reading, line terminator included; the
\* quantity measured stays the same during a run
Responses == { <<"+1.2E+00", "\n">>, <<"+9.9E37", "\n">> }
IdnResponse == <<"KEITHLEY 2000", "\n">>
OVERFLOW == <<"OVERFLOW">>

(* -------------------------------- state -------------------------------- *)

VARIABLES
    args,           \* argv[1 .. argc-1]
    optind, letP, optarg,           \* globals of GetOpt
    key,
    do_display, do_graph, do_overwrite,
    pad, do_flush, delay, mode, tstop, comment, gnuplot, filename,
    inst,           \* identity string of the instrument
    loop, t1,
    outfile,        \* FILE *outfile: "NULL", "open", "closed"
    gp,             \* FILE *gp:      "NULL", "open", "closed"
    dvm,            \* instrument descriptor: "none", "open", "failed"
    tty,            \* terminal mode: "cooked", "raw"
    oldfile,        \* file found at the output path: "none", "intact", "truncated"
    signal,         \* what the instrument answers to ":read?" during this run
    sent,           \* commands passed to ibwrt, with the status each got
    log,            \* what was written to outfile
    flushed,        \* values of loop at which outfile was flushed
    gpcmds,         \* what was written to the plot pipe
    popenCmd,       \* command line given to popen, <<>> before
    gpMisuse,       \* a stdio call was made on a gp that is not open
    faults,         \* library calls that reported an error
    pc, exitCode, retLine

parser == <<args, optind, letP, optarg>>
config == <<do_display, do_overwrite, pad, do_flush, delay, mode, tstop,
            comment, gnuplot>>
files == <<outfile, oldfile, signal, log, flushed>>
plot == <<gp, gpcmds, popenCmd, gpMisuse>>
exit == <<exitCode, retLine>>
vars == <<parser, config, do_graph, key, filename, inst, loop, t1, files,
          plot, dvm, tty, sent, faults, pc, exit>>

Init ==
    /\ args \in ArgvSet
    /\ optind = 1 /\ letP = NullP /\ optarg = NullP
    /\ key = NUL
    /\ do_display = TRUE /\ do_graph = TRUE /\ do_overwrite = FALSE
    /\ pad = 16 /\ do_flush = 100 /\ delay = 10 /\ mode = 0 /\ tstop = 0
    /\ comment = <<>> /\ gnuplot = GNUPLOT /\ filename = <<>>
    /\ inst = <<>>
    /\ loop = 0 /\ t1 = 0
    /\ outfile = "NULL" /\ gp = "NULL" /\ dvm = "none" /\ tty = "cooked"
    /\ oldfile \in {"none", "intact"}
    /\ signal \in Responses
    /\ sent = <<>> /\ log = <<>> /\ flushed = {} /\ gpcmds = <<>>
    /\ popenCmd = <<>> /\ gpMisuse = FALSE
    /\ faults = {}
    /\ pc = "getopt" /\ exitCode = -1 /\ retLine = 0

\* return <code>; at source line <line>
Return(code, line) ==
    /\ pc' = "done"
    /\ exitCode' = code
    /\ retLine' = line

Goto(label) ==
    /\ pc' = label
    /\ UNCHANGED exit

\* inst_write(dvm, cmd) with the status ibwrt reports
inst_write(cmd, ok) ==
    /\ sent' = Append(sent, [cmd |-> cmd, ok |-> ok])
    /\ faults' = IF ok THEN faults ELSE faults \cup {"ibwrt"}

(* ------------------------- command line (141-210) ---------------------- *)

\* variant: the lower limit is not checked
PadOutOfRangeNoLower(p) == p > 30
\* if (pad < 0 || pad > 30)
PadOutOfRange(p) == p < 0 \/ p > 30
DelayOutOfRange(d) == d < 0 \/ d > 600
ModeOutOfRange(m) == m < 0 \/ m > 5
TstopOutOfRange(ts) == ts < 0

\* one pass of while ((key = GetOpt(...)) != EOF) switch (key)
ParseOption ==
    /\ pc = "getopt"
    /\ LET r == GetOpt(args, optind, letP)
           oa == r.optarg.str
       IN  /\ key' = r.ch
           /\ optind' = r.optind
           /\ letP' = r.letP
           /\ optarg' = r.optarg
           /\ do_overwrite' = IF r.ch = "f" THEN TRUE ELSE do_overwrite
           /\ do_graph' = IF r.ch = "n" THEN FALSE ELSE do_graph
           /\ do_display' = IF r.ch = "d" THEN FALSE ELSE do_display
           /\ comment' = IF r.ch = "c" /\ strclean(oa) # <<>>
                         THEN strclean(oa) ELSE comment
           /\ gnuplot' = IF r.ch = "g" THEN ScanStr(oa, 80) ELSE gnuplot
           /\ do_flush' = IF r.ch = "w" THEN ScanInt(oa, 5, do_flush) ELSE do_flush
           /\ pad' = IF r.ch = "a" THEN ScanInt(oa, 5, pad) ELSE pad
           /\ delay' = IF r.ch = "t" THEN ScanInt(oa, 6, delay) ELSE delay
           /\ tstop' = IF r.ch = "T" THEN ScanInt(oa, Len(oa), tstop) ELSE tstop
           /\ mode' = IF r.ch = "m" THEN ScanInt(oa, 5, mode) ELSE mode
           /\ CASE r.ch = EOF -> Goto("args")
                [] r.ch = "h" -> Return(0, 146)
                [] r.ch = "a" /\ PadOutOfRange(pad') -> Return(1, 171)
                [] r.ch = "t" /\ DelayOutOfRange(delay') -> Return(1, 179)
                [] r.ch = "T" /\ TstopOutOfRange(tstop') -> Return(1, 187)
                [] r.ch = "m" /\ ModeOutOfRange(mode') -> Return(1, 196)
                [] r.ch \notin {"f", "n", "d", "c", "g", "w", "a", "t", "T", "m",
                                "h", EOF} -> Return(1, 202)
                [] OTHER -> Goto("getopt")
    /\ UNCHANGED <<args, filename, inst, loop, t1, files, plot, dvm, tty,
                   sent, faults>>

\* variant: the instrument is connected before the output file is prepared
CheckArgsThenConnect ==
    /\ pc = "args"
    /\ IF optind > Len(args) THEN Return(1, 209) ELSE Goto("ibdev")
    /\ UNCHANGED <<parser, config, do_graph, key, filename, inst, loop, t1,
                   files, plot, dvm, tty, sent, faults>>

\* if (argv[optind] == NULL)
CheckArgs ==
    /\ pc = "args"
    /\ IF optind > Len(args) THEN Return(1, 209) ELSE Goto("file")
    /\ UNCHANGED <<parser, config, do_graph, key, filename, inst, loop, t1,
                   files, plot, dvm, tty, sent, faults>>

(* --------------------------- output file (214-233) --------------------- *)

\* variant: the switch has no default branch, every answer goes on
ConfirmedAny(k) == TRUE
\* case 'Y': case 'y': break; default: return 1;
Confirmed(k) == k \in {"Y", "y"}

PrepareFile ==
    /\ pc = "file"
    /\ filename' = args[optind]
    /\ \E typed \in Answers, fopenOk \in BOOLEAN :
         LET ask == oldfile # "none" /\ ~do_overwrite
         IN  /\ key' = IF ask THEN typed ELSE key
             /\ IF ask /\ ~Confirmed(typed)
                THEN /\ Return(1, 225)
                     /\ UNCHANGED <<outfile, oldfile, faults>>
                ELSE IF ~fopenOk
                THEN /\ Return(ERR_FILE, 232)
                     /\ faults' = faults \cup {"fopen"}
                     /\ UNCHANGED <<outfile, oldfile>>
                ELSE /\ outfile' = "open"
                     /\ oldfile' = IF oldfile = "none" THEN "none" ELSE "truncated"
                     /\ Goto("ibdev")
                     /\ UNCHANGED faults
    /\ UNCHANGED <<parser, config, do_graph, inst, loop, t1, signal, log,
                   flushed, plot, dvm, tty, sent>>

(* ----------------------- instrument set-up (237-274) ------------------- *)

\* buffer[ibcnt-1] = 0: the last character received is dropped
StripLast(s) == IF s = <<>> THEN <<>> ELSE SubSeq(s, 1, Len(s) - 1)

\* dvm = ibdev(0, pad, 0, T1s, 1, 0).  On failure pclose(gp) is called while
\* gp is still NULL: undefined, the process is killed or the call returns.
Connect ==
    /\ pc = "ibdev"
    /\ \E ok \in BOOLEAN, killed \in BOOLEAN :
         IF ok
         THEN /\ dvm' = "open"
              /\ Goto("reset")
              /\ UNCHANGED <<faults, gpMisuse>>
         ELSE /\ dvm' = "failed"
              /\ faults' = faults \cup {"ibdev"}
              /\ gpMisuse' = (gpMisuse \/ (do_graph /\ gp # "open"))
              /\ IF do_graph /\ gp # "open" /\ killed
                 THEN Return(SegvStatus, 241)
                 ELSE Return(ERR_INST, 242)
    /\ UNCHANGED <<parser, config, do_graph, key, filename, inst, loop, t1,
                   files, gp, gpcmds, popenCmd, tty, sent>>

Reset ==
    /\ pc = "reset"
    /\ \E ok \in BOOLEAN :
         /\ inst_write(CmdReset, ok)
         /\ IF ok THEN Goto("idn") ELSE Return(ERR_INST, 246)
    /\ UNCHANGED <<parser, config, do_graph, key, filename, inst, loop, t1,
                   files, plot, dvm, tty>>

Identify ==
    /\ pc = "idn"
    /\ \E wrtOk \in BOOLEAN, rdOk \in BOOLEAN :
         /\ sent' = Append(sent, [cmd |-> CmdIdn, ok |-> wrtOk])
         /\ IF ~wrtOk
            THEN /\ Return(ERR_INST, 250)
                 /\ faults' = faults \cup {"ibwrt"}
                 /\ UNCHANGED inst
            ELSE IF ~rdOk
            THEN /\ Return(ERR_INST, 254)
                 /\ faults' = faults \cup {"ibrd_idn"}
                 /\ UNCHANGED inst
            ELSE /\ inst' = StripLast(IdnResponse)
                 /\ Goto("blank")
                 /\ UNCHANGED faults
    /\ UNCHANGED <<parser, config, do_graph, key, filename, loop, t1,
                   files, plot, dvm, tty>>

\* if (!do_display) ... ":DISP:TEXT:DATA ..."
BlankDisplay ==
    /\ pc = "blank"
    /\ IF do_display
       THEN /\ Goto("func")
            /\ UNCHANGED <<sent, faults>>
       ELSE \E ok \in BOOLEAN :
              /\ inst_write(CmdBlank, ok)
              /\ IF ok THEN Goto("func") ELSE Return(ERR_INST, 261)
    /\ UNCHANGED <<parser, config, do_graph, key, filename, inst, loop, t1,
                   files, plot, dvm, tty>>

SetMode ==
    /\ pc = "func"
    /\ \E ok \in BOOLEAN :
         /\ inst_write(CmdMode(mode), ok)
         /\ IF ok THEN Goto("popen") ELSE Return(ERR_INST, 274)
    /\ UNCHANGED <<parser, config, do_graph, key, filename, inst, loop, t1,
                   files, plot, dvm, tty>>

(* ------------------------- plot and header (278-316) ------------------- *)

GpSetup(fname, m) ==
    << <<"set mouse;set mouse labels; set style data lines; set title '",
         fname, "'\n">>,
       <<"set grid xt; set grid yt; set xlabel 'min'; set ylabel '",
         ylabels[m + 1], "'\n">> >>

GpPlot(fname) == <<"plot '", fname, "' with lines title ''\n">>

\* variant: do_graph is left as it was when popen fails
PrepareGnuplotKeepsGraph ==
    /\ pc = "popen"
    /\ popenCmd' = <<"g", "n", "u", "p", "l", "o", "t">>
    /\ \E ok \in BOOLEAN :
         /\ gp' = IF ok THEN "open" ELSE "NULL"
         /\ faults' = IF ok THEN faults ELSE faults \cup {"popen"}
         /\ gpcmds' = IF do_graph THEN gpcmds \o GpSetup(filename, mode)
                      ELSE gpcmds
    /\ Goto("header")
    /\ UNCHANGED <<parser, config, do_graph, key, filename, inst, loop, t1,
                   files, gpMisuse, dvm, tty, sent>>

\* gp = popen("gnuplot", "w"), then the display defaults if (do_graph)
PrepareGnuplot ==
    /\ pc = "popen"
    /\ popenCmd' = <<"g", "n", "u", "p", "l", "o", "t">>
    /\ \E ok \in BOOLEAN :
         /\ gp' = IF ok THEN "open" ELSE "NULL"
         /\ faults' = IF ok THEN faults ELSE faults \cup {"popen"}
         /\ do_graph' = IF ok THEN do_graph ELSE FALSE
         /\ gpcmds' = IF do_graph' THEN gpcmds \o GpSetup(filename, mode)
                      ELSE gpcmds
    /\ Goto("header")
    /\ UNCHANGED <<parser, config, key, filename, inst, loop, t1, files,
                   gpMisuse, dvm, tty, sent>>

Header == [kind |-> "header", text |-> <<inst, comment>>]
Data(reading) == [kind |-> "data", text |-> reading]
Trailer == [kind |-> "trailer", text |-> <<>>]

\* variant: the header block is not written
WriteHeaderNothing ==
    /\ pc = "header"
    /\ tty' = "raw"
    /\ key' = NUL
    /\ Goto("sampling")
    /\ UNCHANGED <<parser, config, do_graph, filename, inst, loop, t1,
                   files, plot, dvm, sent, faults>>

\* file header, t0 = timeinfo(), init_keyboard(), key = 0
WriteHeader ==
    /\ pc = "header"
    /\ log' = Append(log, Header)
    /\ tty' = "raw"
    /\ key' = NUL
    /\ Goto("sampling")
    /\ UNCHANGED <<parser, config, do_graph, filename, inst, loop, t1,
                   outfile, oldfile, signal, flushed, plot, dvm, sent, faults>>

(* --------------------------- sampling (317-366) ------------------------ *)

\* variant: the overflow value is logged as the instrument sent it
ReadingVerbatim(buffer) == buffer
\* strcmp(buffer, "+9.9E37") == 0 -> "OVERFLOW"
Reading(buffer) == IF buffer = <<"+9.9E37">> THEN OVERFLOW ELSE buffer

\* (t1 > tstop) && (tstop > 0.0)
TimedOut(now, limit) == now > limit /\ limit > 0

\* loop % do_flush with loop unsigned long: a negative do_flush is converted
\* to a value above every loop count, so the remainder is loop itself.
\* do_flush must not be 0 here.
Remainder(n, d) == IF d > 0 THEN n % d ELSE n

\* the key after the keyboard was looked up: a pending key replaces key
KeyAfter(k, pressed) == IF pressed # "none" THEN pressed ELSE k

\* while ((key != 'q') && (key != ESC))
Continue(k) == k # "q" /\ k # ESC

\* variant: the pipe is closed only if (do_graph)
ClosesPipeIfGraph(g, graph) == graph
\* if (gp) pclose(gp);
ClosesPipe(g, graph) == g # "NULL"

\* inst_write(":read?") fails: everything is closed, return ERR_INST
SampleTriggerFail ==
    /\ pc = "sampling"
    /\ inst_write(CmdRead, FALSE)
    /\ gp' = IF ClosesPipe(gp, do_graph) THEN "closed" ELSE gp
    /\ outfile' = "closed"
    /\ tty' = "cooked"
    /\ Return(ERR_INST, 327)
    /\ UNCHANGED <<parser, config, do_graph, key, filename, inst, loop, t1,
                   oldfile, signal, log, flushed, gpcmds, popenCmd, gpMisuse,
                   dvm>>

\* variant: no break, the stale buffer is logged as a sample
SampleReadFailLogged ==
    /\ pc = "sampling"
    /\ sent' = Append(sent, [cmd |-> CmdRead, ok |-> TRUE])
    /\ faults' = faults \cup {"ibrd"}
    /\ log' = Append(log, Data(<<>>))
    /\ Goto("stop")
    /\ UNCHANGED <<parser, config, do_graph, key, filename, inst, loop, t1,
                   outfile, oldfile, signal, flushed, plot, dvm, tty>>

\* ibrd() fails: break
SampleReadFail ==
    /\ pc = "sampling"
    /\ sent' = Append(sent, [cmd |-> CmdRead, ok |-> TRUE])
    /\ faults' = faults \cup {"ibrd"}
    /\ Goto("stop")
    /\ UNCHANGED <<parser, config, do_graph, key, filename, inst, loop, t1,
                   files, plot, dvm, tty>>

\* one complete pass of the do ... while body.  With do_flush = 0 the
\* remainder is undefined: the process is killed by SIGFPE, or the division
\* yields some value (zero or not).  t1 is read by the time limit test only,
\* which needs tstop > 0: without a time limit the run is followed with the
\* clock standing still.
Sample ==
    /\ pc = "sampling"
    /\ loop < MaxLoop
    /\ \E now \in t1 .. (IF tstop > 0 THEN MaxTime ELSE t1), pressed \in Keys,
          ub \in IF do_flush = 0 THEN {"trap", "zero", "nonzero"} ELSE {"defined"} :
         LET n == loop + 1
             k1 == IF TimedOut(now, tstop) THEN ESC ELSE key
             trapped == do_flush = 0 /\ ub = "trap"
             doflush == IF do_flush = 0 THEN ub = "zero"
                        ELSE Remainder(n, do_flush) = 0
         IN  /\ inst_write(CmdRead, TRUE)
             /\ log' = Append(log, Data(Reading(StripLast(signal))))
             /\ loop' = n
             /\ t1' = now
             /\ IF trapped
                THEN /\ key' = k1
                     /\ Return(FpeStatus, 352)
                     /\ UNCHANGED <<flushed, gpcmds>>
                ELSE /\ flushed' = IF doflush THEN flushed \cup {n} ELSE flushed
                     /\ gpcmds' = IF doflush /\ do_graph
                                  THEN Append(gpcmds, GpPlot(filename))
                                  ELSE gpcmds
                     /\ key' = KeyAfter(k1, pressed)
                     /\ IF Continue(key') THEN Goto("sampling") ELSE Goto("stop")
    /\ UNCHANGED <<parser, config, do_graph, filename, inst, outfile, oldfile,
                   signal, gp, popenCmd, gpMisuse, dvm, tty>>

(* --------------------------- shutdown (368-386) ------------------------ *)

\* variant: the stop line is not written
StopLogNothing(l) == l
\* fprintf(outfile, "# Acquisition stop: %s\n", ctime(&t))
StopLog(l) == Append(l, Trailer)

\* variant: the trailer is written once for the time limit and once more
\* for the key
StopPerCondition ==
    /\ pc = "stop"
    /\ log' = IF TimedOut(t1, tstop) /\ ~Continue(key)
              THEN StopLog(StopLog(log)) ELSE StopLog(log)
    /\ outfile' = "closed"
    /\ tty' = "cooked"
    /\ gp' = IF do_graph THEN "closed" ELSE gp
    /\ gpMisuse' = (gpMisuse \/ (do_graph /\ gp # "open"))
    /\ Goto("unblank")
    /\ UNCHANGED <<parser, config, do_graph, key, filename, inst, loop, t1,
                   oldfile, signal, flushed, gpcmds, popenCmd, dvm, sent,
                   faults>>

\* trailer, fclose(outfile), close_keyboard(), if (do_graph) pclose(gp)
Stop ==
    /\ pc = "stop"
    /\ log' = StopLog(log)
    /\ outfile' = "closed"
    /\ tty' = "cooked"
    /\ gp' = IF do_graph THEN "closed" ELSE gp
    /\ gpMisuse' = (gpMisuse \/ (do_graph /\ gp # "open"))
    /\ Goto("unblank")
    /\ UNCHANGED <<parser, config, do_graph, key, filename, inst, loop, t1,
                   oldfile, signal, flushed, gpcmds, popenCmd, dvm, sent,
                   faults>>

\* if (!do_display) ... ":DISP:TEXT:STAT 0"
RestoreDisplay ==
    /\ pc = "unblank"
    /\ IF do_display
       THEN /\ Goto("preset")
            /\ UNCHANGED <<sent, faults>>
       ELSE \E ok \in BOOLEAN :
              /\ inst_write(CmdUnblank, ok)
              /\ IF ok THEN Goto("preset") ELSE Return(ERR_INST, 379)
    /\ UNCHANGED <<parser, config, do_graph, key, filename, inst, loop, t1,
                   files, plot, dvm, tty>>

Preset ==
    /\ pc = "preset"
    /\ \E ok \in BOOLEAN :
         /\ inst_write(CmdPreset, ok)
         /\ IF ok THEN Return(0, 386) ELSE Return(ERR_INST, 383)
    /\ UNCHANGED <<parser, config, do_graph, key, filename, inst, loop, t1,
                   files, plot, dvm, tty>>

(* ---------------------------- specification ---------------------------- *)

Next ==
    \/ ParseOption
    \/ CheckArgs
    \/ PrepareFile
    \/ Connect
    \/ Reset
    \/ Identify
    \/ BlankDisplay
    \/ SetMode
    \/ PrepareGnuplot
    \/ WriteHeader
    \/ SampleTriggerFail
    \/ SampleReadFail
    \/ Sample
    \/ Stop
    \/ RestoreDisplay
    \/ Preset

Spec == Init /\ [][Next]_vars

TypeOK ==
    /\ pc \in {"getopt", "args", "file", "ibdev", "reset", "idn", "blank",
               "func", "popen", "header", "sampling", "stop", "unblank",
               "preset", "done"}
    /\ outfile \in {"NULL", "open", "closed"}
    /\ gp \in {"NULL", "open", "closed"}
    /\ loop \in 0 .. MaxLoop
    /\ t1 \in 0 .. MaxTime

(* ------------------------------ properties ----------------------------- *)

ExitCodes == {0, 1, ERR_FILE, ERR_INST}
\* main() has returned (the process was not killed by a signal)
Returned == pc = "done" /\ exitCode \in ExitCodes

Count(seq, kind) == Cardinality({i \in 1 .. Len(seq) : seq[i].kind = kind})
Sends(cmd) == {i \in 1 .. Len(sent) : sent[i].cmd = cmd}
\* sending ":read?" failed
TriggerFailed == \E i \in Sends(CmdRead) : ~sent[i].ok
\* reading a sample back failed
ReadFailed == "ibrd" \in faults
PresetSent == Sends(CmdPreset) # {}

\* C1: whenever main() has returned after the output file was opened, the
\* output file has been closed.
C1_FileClosedAtExit == Returned => outfile # "open"

\* C2: whenever main() has returned, a plot pipe that was opened has been
\* closed, whatever do_graph was and however popen came out.
C2_PipeClosedAtExit == Returned => gp # "open"

\* C3: whenever main() has returned after the instrument was opened, the
\* restore-to-preset command has been sent (the code has no other release
\* of the descriptor).
C3_SessionReleasedAtExit == Returned /\ dvm = "open" => PresetSent

\* C4 as stated: once the sampling loop has been left and the log file is
\* closed, the log holds exactly one stop trailer, on every way out of the
\* loop including a failed ":read?".
C4_TrailerOnEveryExit ==
    outfile = "closed" => Count(log, "trailer") = 1

\* C4 amended: when the loop is left by a stop key, the time limit or a
\* failed sample read, the closed log ends with exactly one trailer; when
\* the loop is left by a failed ":read?" the log is closed with no trailer.
C4_TrailerUnlessTriggerFailed ==
    outfile = "closed" =>
        IF TriggerFailed
        THEN Count(log, "trailer") = 0
        ELSE Count(log, "trailer") = 1 /\ log[Len(log)] = Trailer

C4_Witness ==
    /\ pc = "done" /\ outfile = "closed" /\ ~TriggerFailed
    /\ loop > 0 /\ Count(log, "trailer") = 1

\* C5: with a positive time limit, once a pass of the loop has computed an
\* elapsed time above the limit the loop is over: the program is not back
\* at the head of the loop to send another ":read?".
C5_StopsAtTimeLimit ==
    (loop > 0 /\ tstop > 0 /\ t1 > tstop) => pc # "sampling"

\* C6: a file found at the output path changes only in the step that opens
\* the output file, and only if overwriting was forced or the key read at
\* the prompt is 'y' or 'Y'; with any other key that step ends the program
\* with exit code 1 and leaves the file as it was.
C6_NoUnconfirmedOverwrite ==
    [][ /\ oldfile' # oldfile =>
            (pc = "file" /\ (do_overwrite \/ key' \in {"y", "Y"}))
        /\ (pc = "file" /\ oldfile = "intact" /\ ~do_overwrite
              /\ key' \notin {"y", "Y"}) =>
            (pc' = "done" /\ exitCode' = 1 /\ oldfile' = "intact"
               /\ outfile' = "NULL") ]_vars

C6_Witness == oldfile = "truncated" /\ ~do_overwrite /\ pc = "ibdev" /\ key = "y"

\* GetOpt returned EOF and argv[optind] is NULL
MissingFile == key = EOF /\ optind > Len(args)
UsageError ==
    \/ pad < 0 \/ pad > 30
    \/ delay < 0 \/ delay > 600
    \/ mode < 0 \/ mode > 5
    \/ tstop < 0
    \/ key = "~"
    \/ MissingFile

\* C7: with a bus address outside 0..30, a delay outside 0..600, a mode
\* outside 0..5, a negative time limit, an option GetOpt rejects (unknown
\* letter, missing argument) or no file name, nothing has been opened, and
\* the program has exited with code 1 or is at the file name check whose
\* only way on is that exit.
C7_UsageErrorsExitEarly ==
    UsageError =>
        /\ outfile = "NULL" /\ dvm = "none" /\ gp = "NULL"
        /\ oldfile # "truncated" /\ sent = <<>>
        /\ \/ pc = "done" /\ exitCode = 1
           \/ pc = "args" /\ MissingFile

C7_Witness == pc = "done" /\ pad < 0 /\ exitCode = 1

\* the overwrite prompt was answered with something else than 'y' or 'Y'
Declined == retLine = 225

\* C8: the exit code is one of 0, 1, 4, 5; it is 1 exactly for a usage error
\* or a declined overwrite, 4 exactly when fopen failed, 5 exactly when
\* ibdev, a command send or the identity read failed, and 0 exactly for
\* help or a run that reached the end of the shutdown.
C8_ExitCodes ==
    pc = "done" =>
        /\ exitCode \in ExitCodes
        /\ exitCode = 1 <=> (UsageError \/ Declined)
        /\ exitCode = ERR_FILE <=> "fopen" \in faults
        /\ exitCode = ERR_INST <=> faults \cap {"ibdev", "ibwrt", "ibrd_idn"} # {}
        /\ exitCode = 0 <=>
               \/ key = "h"
               \/ sent # <<>> /\ sent[Len(sent)] = [cmd |-> CmdPreset, ok |-> TRUE]

\* C9: after a failed sample read no data line was written for that pass
\* (one ":read?" more than data lines), the loop is over, and once the
\* program is done with no command send failed: the log ends with the one
\* trailer, the file is closed, the terminal restored, the plot pipe closed
\* if graphing is enabled, the display restored if it was blanked, the
\* preset sent last, and the exit code is 0.
C9_ReadFailureShutsDown ==
    ReadFailed =>
        /\ pc \in {"stop", "unblank", "preset", "done"}
        /\ Count(log, "data") = loop
        /\ Cardinality(Sends(CmdRead)) = loop + 1
        /\ (pc = "done" /\ "ibwrt" \notin faults) =>
               /\ exitCode = 0
               /\ Count(log, "trailer") = 1 /\ log[Len(log)] = Trailer
               /\ outfile = "closed" /\ tty = "cooked"
               /\ do_graph => gp = "closed"
               /\ ~do_display => Sends(CmdUnblank) # {}
               /\ sent[Len(sent)] = [cmd |-> CmdPreset, ok |-> TRUE]

C9_Witness ==
    /\ ReadFailed /\ pc = "done" /\ exitCode = 0
    /\ loop > 0 /\ ~do_display /\ do_graph

\* C10: after a failed ":read?" the program is done with exit code 5, the
\* log file closed, the plot pipe not open, the terminal restored; the
\* failed ":read?" is the last command sent and the only failed one.
C10_TriggerFailureIsFatal ==
    TriggerFailed =>
        /\ pc = "done" /\ exitCode = ERR_INST
        /\ outfile = "closed" /\ gp # "open" /\ tty = "cooked"
        /\ sent[Len(sent)] = [cmd |-> CmdRead, ok |-> FALSE]
        /\ Cardinality({i \in 1 .. Len(sent) : ~sent[i].ok}) = 1

C10_Witness ==
    /\ TriggerFailed /\ pc = "done" /\ loop > 0
    /\ gp = "closed" /\ ~do_graph

\* option parsing is over and did not end the program (lines 141-210)
PastParsing ==
    \/ pc \notin {"getopt", "args", "done"}
    \/ pc = "done" /\ retLine > 210

\* C11: whenever the program has proceeded past option parsing, the bus
\* address is in 0..30, the delay in 0..600, the mode in 0..5 and the flush
\* interval is positive, so that loop % do_flush never divides by zero.
C11_ConfigInvariants ==
    PastParsing =>
        /\ pad \in 0 .. 30
        /\ delay \in 0 .. 600
        /\ mode \in 0 .. 5
        /\ do_flush > 0

\* k is a multiple of n
IsMultiple(k, n) == \E j \in (0 - k) .. k : k = j * n
\* number of redraw commands written to the plot pipe
Redraws == Cardinality({i \in 1 .. Len(gpcmds) : gpcmds[i] = GpPlot(filename)})

\* C12: with flush interval do_flush, the log file has been flushed after
\* exactly those recorded samples whose number is a multiple of do_flush; a
\* redraw command was written at each of these samples if graphing is
\* enabled, and none at all if it is disabled.
C12_FlushEveryN ==
    /\ flushed = {k \in 1 .. loop : IsMultiple(k, do_flush)}
    /\ Redraws = IF do_graph THEN Cardinality(flushed) ELSE 0

\* the response without the line terminator behind it
Stripped(response) == SelectSeq(response, LAMBDA c : c \notin {"\r", "\n"})
DataLines == {i \in 1 .. Len(log) : log[i].kind = "data"}

ModeToken(m) ==
    CASE m = 0 -> "volt:dc" [] m = 1 -> "curr:dc" [] m = 2 -> "res"
      [] m = 3 -> "temp" [] m = 4 -> "cont" [] m = 5 -> "diod"
ModeLabel(m) ==
    CASE m = 0 -> "V" [] m = 1 -> "mA" [] m = 2 -> "Ohm"
      [] m = 3 -> "degrees C" [] m = 4 -> "Ohm" [] m = 5 -> "mV"
\* the mode-select commands among the commands sent
ModeSends == {i \in 1 .. Len(sent) : sent[i].cmd[1] = ":func '"}
\* the mode-select step (266-274) is over
ModeSelected ==
    \/ pc \in {"popen", "header", "sampling", "stop", "unblank", "preset"}
    \/ pc = "done" /\ retLine >= 274

\* the command and the label built for each mode are those of the interface
ModeTablesAgree ==
    \A m \in 0 .. 5 :
        /\ CmdMode(m) = <<":func '", ModeToken(m), "';:init; *opc\n">>
        /\ GpSetup(<<>>, m)[2][2] = ModeLabel(m)

\* C14: for each mode 0..5 the mode-select command is the template with the
\* token of the mode and the y-axis label is the label of the mode; once the
\* mode-select step is over exactly one mode-select command was sent, it is
\* the one of the configured mode, and the axis command written to the plot
\* pipe carries the label of the configured mode.
C14_ModeCommandAndLabel ==
    /\ ModeTablesAgree
    /\ \A i \in ModeSends :
          sent[i].cmd = <<":func '", ModeToken(mode), "';:init; *opc\n">>
    /\ ModeSelected => Cardinality(ModeSends) = 1
    /\ gpcmds # <<>> =>
          gpcmds[2] = <<"set grid xt; set grid yt; set xlabel 'min'; set ylabel '",
                        ModeLabel(mode), "'\n">>

C14_Witness ==
    /\ mode = 5 /\ pc = "sampling" /\ gpcmds # <<>>
    /\ \E i \in ModeSends : sent[i].ok

\* the samples read back without error
SamplesRead ==
    Cardinality({i \in Sends(CmdRead) : sent[i].ok}) - (IF ReadFailed THEN 1 ELSE 0)
\* the shutdown at lines 368-374 has run
ShutDown ==
    \/ pc \in {"unblank", "preset"}
    \/ pc = "done" /\ retLine \in {379, 383, 386}

\* C15: the log holds the header block once, as its first entry and so
\* before any data line; it holds one data line per sample read back, as
\* many as the sample counter says; a trailer is the last entry of the log;
\* and once the shutdown has run the log ends with the one trailer.
C15_LogStructure ==
    /\ \A i \in 1 .. Len(log) :
          /\ log[i].kind = "header" <=> i = 1
          /\ log[i].kind = "trailer" => i = Len(log)
    /\ pc \in {"sampling", "stop"} \/ ShutDown => Count(log, "header") = 1
    /\ Count(log, "data") = loop
    /\ Count(log, "data") = SamplesRead
    /\ ShutDown => log[Len(log)] = Trailer /\ Len(log) = loop + 2

C15_Witness ==
    /\ pc = "done" /\ exitCode = 0 /\ loop = 2
    /\ log[1] = Header /\ log[4] = Trailer

\* the time limit is exceeded and the key is a quit key in the same pass
BothStops == loop > 0 /\ TimedOut(t1, tstop) /\ key \in {"q", ESC}

\* C16: when the time limit and a quit key stop the loop in the same pass,
\* the loop is not entered again and the shutdown happens once: one step
\* writes the one trailer, closes the file that was open, restores the
\* terminal that was raw and closes the plot pipe only if it was open; no
\* later step touches the log, the file, the terminal or the pipe, and the
\* preset command is sent at most once, as the last command.
C16_ShutdownOnce ==
    [][ BothStops =>
          /\ pc # "sampling" /\ pc' # "sampling"
          /\ pc = "stop" =>
                /\ log' = Append(log, Trailer) /\ Count(log, "trailer") = 0
                /\ outfile = "open" /\ outfile' = "closed"
                /\ tty = "raw" /\ tty' = "cooked"
                /\ gp' # gp => gp = "open" /\ gp' = "closed"
                /\ pc' = "unblank"
          /\ pc # "stop" =>
                /\ log' = log /\ outfile' = outfile /\ tty' = tty /\ gp' = gp
                /\ pc' \in {"preset", "done"}
          /\ sent' # sent /\ sent'[Len(sent')].cmd = CmdPreset =>
                Sends(CmdPreset) = {} /\ pc' = "done" ]_vars

C16_Witness ==
    /\ BothStops /\ key = "q" /\ pc = "done" /\ exitCode = 0
    /\ Count(log, "trailer") = 1 /\ outfile = "closed" /\ tty = "cooked"
    /\ gp = "closed" /\ Cardinality(Sends(CmdPreset)) = 1

\* popen() returned NULL
PopenFailed == "popen" \in faults

\* C17: after a failed popen graphing is disabled for good, nothing is ever
\* written to the plot pipe and the pipe is never used; the run goes on to
\* the header and the sampling loop, and the exit code is what the rest of
\* the run makes it: 5 exactly when a command send failed, 0 exactly when
\* the preset command was sent last and succeeded.
C17_PopenFailureDegrades ==
    PopenFailed =>
        /\ ~do_graph /\ gp = "NULL" /\ gpcmds = <<>> /\ ~gpMisuse
        /\ pc \in {"header", "sampling", "stop", "unblank", "preset", "done"}
        /\ pc = "done" =>
              /\ log # <<>> /\ retLine > 316
              /\ exitCode = ERR_INST <=> "ibwrt" \in faults
              /\ exitCode = 0 <=>
                    sent[Len(sent)] = [cmd |-> CmdPreset, ok |-> TRUE]

C17_Witness ==
    /\ PopenFailed /\ pc = "done" /\ exitCode = 0 /\ loop = 2
    /\ flushed # {} /\ gpcmds = <<>>

\* C18: the command given to popen is the configured plotting tool: the
\* default name, or the path given with -g.
C18_ConfiguredPlotterLaunched ==
    popenCmd # <<>> => popenCmd = gnuplot

\* C19: when GetOpt is called with the switch character alone as the last
\* argument, it returns the error character '~' and main ends with the
\* invalid-option exit at line 202.
C19_LoneSwitchIsError ==
    [][ (pc = "getopt" /\ letP.null /\ optind = Len(args)
           /\ args[optind] = <<"-">>) =>
        (key' = "~" /\ pc' = "done" /\ retLine' = 202) ]_vars

\* main() ended while setting up the instrument (lines 237-274)
ConfigFailed == pc = "done" /\ retLine \in 237 .. 274

\* C20 as stated: the output file is opened only after the instrument was
\* opened and the mode-select command succeeded, and a run that ends while
\* setting up the instrument leaves an existing file untouched.
C20_FileOpenedAfterInstrument ==
    /\ outfile # "NULL" => dvm = "open" /\ \E i \in ModeSends : sent[i].ok
    /\ ConfigFailed => oldfile # "truncated"

\* C20 amended: the output file is opened, and an existing file truncated,
\* before the instrument is touched; the set-up commands are then sent in
\* the order reset, identity query, display text (if the display is to be
\* blanked), mode select; the plot pipe is opened after the mode select
\* and the header written after that; a run that ends while setting up the
\* instrument has opened the output file and truncated an existing file.
C20_FileOpenedBeforeInstrument ==
    /\ dvm # "none" \/ sent # <<>> => outfile # "NULL" /\ oldfile # "intact"
    /\ sent # <<>> => dvm = "open"
    /\ Sends(CmdReset) \subseteq {1} /\ Sends(CmdIdn) \subseteq {2}
    /\ Sends(CmdBlank) \subseteq {3}
    /\ ModeSends \subseteq {IF do_display THEN 3 ELSE 4}
    /\ popenCmd # <<>> => \E i \in ModeSends : sent[i].ok
    /\ log # <<>> => popenCmd # <<>>
    /\ ConfigFailed => outfile # "NULL" /\ oldfile # "intact"

C20_Witness ==
    /\ ConfigFailed /\ exitCode = ERR_INST /\ oldfile = "truncated"
    /\ \E i \in ModeSends : ~sent[i].ok

\* C21: every step that writes to the plot pipe does so on a pipe that is
\* open (opened earlier, or by popen in the same step), every step that
\* closes it closes a pipe that is open, and no step makes a stdio call on
\* a plot pipe that was never opened or is already closed.
C21_PipeUsedOnlyWhileOpen ==
    [][ /\ gpcmds' # gpcmds =>
              (gp = "open" \/ (pc = "popen" /\ gp' = "open"))
        /\ (gp' = "closed" /\ gp # "closed") => gp = "open"
        /\ ~gpMisuse' ]_vars

====
